---- MODULE Spec2Model ----
(***************************************************************************)
(* State-machine model of gdbp/gdbp_base.py: module construction,          *)
(* model_init, overlap-aware batch windowing, the jit-compiled update      *)
(* step with its contrastive loss, the train generator and test.           *)
(*                                                                         *)
(* The layer stack (commplax) is an opaque differentiable operator: its    *)
(* outputs and states are modelled as free terms of their inputs, so two   *)
(* results are equal only when the code computed them from equal inputs.   *)
(***************************************************************************)
EXTENDS Integers, Sequences, FiniteSets, TLC

VARIABLES
    data,        \* the gdat.Input data set: lengths of y and x
    conf,        \* arguments given to model_init
    phase,       \* "new" | "made" | "failed": outcome of model_init
    err,         \* exception raised by model_init ("none" if none)
    built,       \* construction stages that model_init reached
    model,       \* the Model namedtuple
    tr,          \* frame of the train generator
    run,         \* number of train generators created so far
    jit_cache,   \* traces held by the jit wrapper of update_step
    n_updates,   \* optimizer updates done by the current train generator
    n_emitted,   \* units yielded by the current train generator
    emitted,     \* the last unit yielded
    fwd,         \* the module.apply calls of the last loss_fn evaluation
    traced,      \* whether the last update_step call ran loss_fn's Python
    run_start,   \* params, module state, optimizer state at each run's start
    test_log,    \* the last call of test
    lim,         \* ranges the inputs of this exploration are drawn from
    wnd,         \* SpecBatch: the (L, B, O) triple and its windows
    mimo         \* SpecMimo: mode, step counter, adaptive-update flag

vars == <<data, conf, phase, err, built, model, tr, run, jit_cache, n_updates,
          n_emitted, emitted, fwd, traced, run_start, test_log, lim, wnd, mimo>>

(***************************************************************************)
(* Bounds of the model.                                                    *)
(***************************************************************************)
MaxL == 4        \* longest data set, in symbols
MaxB == 2        \* largest batch size
MaxO == 1        \* largest overlap the module reports at init
MaxIter == 2     \* largest requested iteration count
NDraws == 1      \* distinct magnitudes one augmentation can draw
MaxRuns == 2     \* train generators created over one Model (SpecRuns)
RunsMaxL == 2    \* longest data set of SpecRuns
RunsMaxB == 2    \* largest batch size of SpecRuns
WMaxL == 8       \* longest signal of SpecBatch
WMaxB == 3       \* largest batch size of SpecBatch
WMaxO == 3       \* largest overlap of SpecBatch
MaxBlocks == 4   \* blocks of symbols the equalizer processes in SpecMimo

(***************************************************************************)
(* Program constants.                                                      *)
(***************************************************************************)
sps == 2                 \* samples per symbol
NoneIter == -1           \* n_iter=None
Boundary == 200000       \* cxopt.piecewise_constant([200000], ...)

Keys == {"k1", "k2"}                 \* key-paths of v0['params']
Modes == {"train", "test", "eval"}   \* mode strings offered to model_init
Taps == {3, 4}                       \* odd and even tap counts
GradSet == {0, 1}                    \* values a gradient entry can take

Min(a, b) == IF a <= b THEN a ELSE b

(***************************************************************************)
(* Signals.  A signal is described by the window of the data set it was    *)
(* cut from and by the augmentation applied to it.                         *)
(***************************************************************************)
Signal(start, len) == [start |-> start, len |-> len, op |-> "id", mag |-> 0]

NoSignal == Signal(0, 0)

(***************************************************************************)
(* make_base_module and _assert_taps.                                      *)
(***************************************************************************)
NoModule == [mode |-> "none", mimo_train |-> "none"]

assert_taps(dtaps, ntaps, rtaps) ==
    /\ dtaps % sps # 0
    /\ ntaps % sps # 0
    /\ rtaps % sps # 0

make_base_module_lenient(dtaps, ntaps, rtaps, mode) ==
    IF ~assert_taps(dtaps, ntaps, rtaps)
    THEN [err |-> "AssertionError", stages |-> {}, module |-> NoModule]
    ELSE IF mode = "test"
    THEN [err |-> "none", stages |-> {"Serial"},
          module |-> [mode |-> mode, mimo_train |-> "piecewise"]]
    ELSE [err |-> "none", stages |-> {"Serial"},
          module |-> [mode |-> mode, mimo_train |-> "True"]]

make_base_module(dtaps, ntaps, rtaps, mode) ==
    IF ~assert_taps(dtaps, ntaps, rtaps)
    THEN [err |-> "AssertionError", stages |-> {}, module |-> NoModule]
    ELSE IF mode = "train"
    THEN [err |-> "none", stages |-> {"Serial"},
          module |-> [mode |-> mode, mimo_train |-> "True"]]
    ELSE IF mode = "test"
    THEN [err |-> "none", stages |-> {"Serial"},
          module |-> [mode |-> mode, mimo_train |-> "piecewise"]]
    ELSE [err |-> "ValueError", stages |-> {}, module |-> NoModule]

(***************************************************************************)
(* Dictionaries of parameters: functions from key-paths to values.         *)
(***************************************************************************)
Restrict(d, ks) == [k \in ks |-> d[k]]

\* util.dict_split(d, keys): (the entries named by keys, the remaining ones)
dict_split(d, ks) ==
    <<Restrict(d, DOMAIN d \cap ks), Restrict(d, DOMAIN d \ ks)>>

\* util.dict_merge(a, b): a new dictionary holding the entries of both
dict_merge(a, b) ==
    [k \in DOMAIN a \cup DOMAIN b |-> IF k \in DOMAIN a THEN a[k] ELSE b[k]]

\* core.dict_replace(d, kv): a new dictionary, d with the entries of kv replaced
dict_replace(d, kv) ==
    [k \in DOMAIN d |-> IF k \in DOMAIN kv THEN kv[k] ELSE d[k]]

(***************************************************************************)
(* mod.init(rng0, Signal(y0)): the variable snapshot for PRNGKey(0).       *)
(***************************************************************************)
V0 == [params   |-> [k \in Keys |-> 0],
       af_state |-> [step |-> 0, last |-> NoSignal, p |-> [k \in Keys |-> 0]],
       aux      |-> [truth |-> NoSignal],
       const    |-> [t |-> 0]]

NoVars == [params |-> [k \in {} |-> 0], state |-> V0.af_state, aux |-> V0.aux,
           const |-> V0.const, sparams |-> [k \in {} |-> 0]]

NoModel == [module |-> NoModule, initvar |-> NoVars, overlaps |-> 0]

(***************************************************************************)
(* model_init: ol is the validity window z0.t.start - z0.t.stop that the   *)
(* module reports for the reference batch.                                 *)
(***************************************************************************)
model_init(dtaps, ntaps, rtaps, mode, sparams_flatkeys, ol) ==
    LET mk == make_base_module(dtaps, ntaps, rtaps, mode)
        sp == dict_split(V0.params, sparams_flatkeys)
    IN  IF mk.err # "none"
        THEN [err |-> mk.err, stages |-> mk.stages, model |-> NoModel]
        ELSE [err |-> "none",
              stages |-> mk.stages \cup {"init", "Model"},
              model |-> [module   |-> mk.module,
                         initvar  |-> [params  |-> sp[2],
                                       state   |-> V0.af_state,
                                       aux     |-> V0.aux,
                                       const   |-> V0.const,
                                       sparams |-> sp[1]],
                         overlaps |-> ol]]

(***************************************************************************)
(* op.frame_gen and op.frame_shape: frames of length flen taken every      *)
(* fstep samples of a sequence of n samples, none when n < flen.           *)
(***************************************************************************)
frame_shape(n, flen, fstep) ==
    IF n < flen THEN 0 ELSE (n - flen) \div fstep + 1

frame_gen(n, flen, fstep) ==
    [k \in 1..frame_shape(n, flen, fstep) |-> Signal((k - 1) * fstep, flen)]

zip(a, b) == [k \in 1..Min(Len(a), Len(b)) |-> <<a[k], b[k]>>]

(***************************************************************************)
(* get_train_batch.                                                        *)
(***************************************************************************)
get_train_batch_no_overlap(ds, batchsize, overlaps) ==
    LET flen  == batchsize
        fstep == batchsize
        ds_y  == frame_gen(ds.ylen, flen * sps, fstep * sps)
        ds_x  == frame_gen(ds.xlen, flen, fstep)
    IN  [n_batches |-> frame_shape(ds.xlen, flen, fstep),
         batch_gen |-> zip(ds_y, ds_x)]

get_train_batch_stride_flen(ds, batchsize, overlaps) ==
    LET flen  == batchsize + overlaps
        fstep == batchsize + overlaps
        ds_y  == frame_gen(ds.ylen, flen * sps, fstep * sps)
        ds_x  == frame_gen(ds.xlen, flen, fstep)
    IN  [n_batches |-> frame_shape(ds.xlen, flen, fstep),
         batch_gen |-> zip(ds_y, ds_x)]

get_train_batch(ds, batchsize, overlaps) ==
    LET flen  == batchsize + overlaps
        fstep == batchsize
        ds_y  == frame_gen(ds.ylen, flen * sps, fstep * sps)
        ds_x  == frame_gen(ds.xlen, flen, fstep)
    IN  [n_batches |-> frame_shape(ds.xlen, flen, fstep),
         batch_gen |-> zip(ds_y, ds_x)]

(***************************************************************************)
(* Signal augmentation.  r is what the calls of np.random return: whether  *)
(* rand() < p, and the magnitude drawn by uniform().                       *)
(***************************************************************************)
Draws(n) == {[hit |-> FALSE, mag |-> 0]} \cup [hit : {TRUE}, mag : 1..n]

apply_transform(x, r) ==
    IF r.hit THEN [x EXCEPT !.op = "scale", !.mag = r.mag] ELSE x

apply_transform1(x, r) ==
    IF r.hit THEN [x EXCEPT !.op = "shift", !.mag = r.mag] ELSE x

(***************************************************************************)
(* module.apply: the output and the new adaptive-filter state are free     *)
(* terms of the variables and the input.  path names the forward pass the  *)
(* output belongs to, for tracking what the loss is differentiated through.*)
(***************************************************************************)
module_apply(variables, sig, path) ==
    [z        |-> [src |-> sig, abs |-> FALSE, deps |-> {path}],
     state    |-> [step |-> variables.state.step + 1,
                   last |-> sig,
                   p    |-> variables.params],
     call     |-> [params |-> variables.params, state |-> variables.state,
                   aux |-> variables.aux, const |-> variables.const,
                   input |-> sig]]

Abs(z) == [z EXCEPT !.abs = TRUE]

stop_gradient(z) == [z EXCEPT !.deps = {}]

negative_cosine_similarity(p, z) ==
    [p |-> p.src, z |-> z.src, deps |-> p.deps \cup z.deps]

(***************************************************************************)
(* loss_fn.  rnd = <<r, r1>> are the random draws of its two               *)
(* augmentation calls.                                                     *)
(***************************************************************************)
forwards(params, state, y, aux, const, sparams, rnd) ==
    LET merged         == dict_merge(params, sparams)
        y_transformed  == apply_transform(y, rnd[1])
        y_transformed1 == apply_transform1(y, rnd[2])
        variables      == [params |-> merged, aux |-> aux, const |-> const,
                           state |-> state]
    IN  <<module_apply(variables, y, "original"),
          module_apply(variables, y_transformed, "view1"),
          module_apply(variables, y_transformed1, "view2")>>

loss_fn_keeps_view_state(params, state, y, x, aux, const, sparams, rnd) ==
    LET f == forwards(params, state, y, aux, const, sparams, rnd)
        z_transformed_real   == Abs(f[2].z)
        z_transformed_real1  == Abs(f[3].z)
    IN  [loss          |-> negative_cosine_similarity(z_transformed_real,
                                                       z_transformed_real1),
         updated_state |-> f[2].state,
         calls         |-> <<f[1].call, f[2].call, f[3].call>>]

loss_fn(params, state, y, x, aux, const, sparams, rnd) ==
    LET f == forwards(params, state, y, aux, const, sparams, rnd)
        z_original_real      == Abs(f[1].z)
        z_transformed_real   == Abs(f[2].z)
        z_transformed_real1  == Abs(f[3].z)
        z_transformed1_real1 == stop_gradient(z_transformed_real1)
        contrastive_loss     == negative_cosine_similarity(z_transformed_real,
                                                           z_transformed_real1)
    IN  [loss          |-> contrastive_loss,
         updated_state |-> f[1].state,
         calls         |-> <<f[1].call, f[2].call, f[3].call>>]

(***************************************************************************)
(* The optimizer: optax.chain(scale_by_adam(), scale_by_schedule(...)).    *)
(* Its state counts the updates and accumulates the gradients; the update  *)
(* it returns has the sign of the gradient.                                *)
(***************************************************************************)
optimizer_init(params) ==
    [count |-> 0, mu |-> [k \in DOMAIN params |-> 0]]

optimizer_update(grads, opt_state, params) ==
    [updates       |-> [k \in DOMAIN grads |-> grads[k]],
     new_opt_state |-> [count |-> opt_state.count + 1,
                        mu    |-> [k \in DOMAIN grads |->
                                      opt_state.mu[k] + grads[k]]]]

apply_updates(params, updates) ==
    [k \in DOMAIN params |-> params[k] + updates[k]]

(***************************************************************************)
(* update_step (the function the jit wrapper traces).  g is the value of   *)
(* the gradient entries, which is zero when the loss is differentiated     *)
(* through no forward pass.                                                *)
(***************************************************************************)
update_step_merged(opt_state, params, module_state, y, x, aux, const, sparams, rnd, g) ==
    LET merged  == dict_merge(params, sparams)
        r       == loss_fn(params, module_state, y, x, aux, const, sparams, rnd)
        grads   == [k \in DOMAIN merged |-> IF r.loss.deps = {} THEN 0 ELSE g]
        u       == optimizer_update(grads, [opt_state EXCEPT !.mu =
                        [k \in DOMAIN merged |->
                            IF k \in DOMAIN opt_state.mu THEN opt_state.mu[k] ELSE 0]],
                        merged)
    IN  [loss             |-> r.loss,
         new_opt_state    |-> u.new_opt_state,
         new_module_state |-> r.updated_state,
         new_params       |-> apply_updates(merged, u.updates),
         calls            |-> r.calls]

update_step(opt_state, params, module_state, y, x, aux, const, sparams, rnd, g) ==
    LET r       == loss_fn(params, module_state, y, x, aux, const, sparams, rnd)
        grads   == [k \in DOMAIN params |-> IF r.loss.deps = {} THEN 0 ELSE g]
        u       == optimizer_update(grads, opt_state, params)
    IN  [loss             |-> r.loss,
         new_opt_state    |-> u.new_opt_state,
         new_module_state |-> r.updated_state,
         new_params       |-> apply_updates(params, u.updates),
         calls            |-> r.calls]

(***************************************************************************)
(* core.dict_replace leaves its argument as it was: the value of the       *)
(* dictionary object d after dict_replace(d, kv) has returned.             *)
(***************************************************************************)
arg_after_dict_replace_in_place(d, kv) == dict_replace(d, kv)

arg_after_dict_replace(d, kv) == d

(***************************************************************************)
(* train: the generator's frame.                                           *)
(***************************************************************************)
NoFrame == [pc |-> "none", batch_size |-> 0, req |-> 0,
            params |-> NoVars.params, module_state |-> V0.af_state,
            aux |-> V0.aux, const |-> V0.const, sparams |-> NoVars.sparams,
            opt_state |-> optimizer_init(NoVars.params),
            n_batch |-> 0, n_iter |-> 0, pos |-> 0]

\* n_iter = n_batch if n_iter is None else min(n_iter, n_batch)
iterations(n_iter, n_batch) ==
    IF n_iter = NoneIter THEN n_batch ELSE Min(n_iter, n_batch)

\* if i >= n_iter: break
loop_break_late(i, n_iter) == i > n_iter

loop_break(i, n_iter) == i >= n_iter

\* the statements of train before its loop
prologue(f, m, ds) ==
    LET gb == get_train_batch(ds, f.batch_size, m.overlaps)
    IN  [f EXCEPT !.params       = m.initvar.params,
                  !.module_state = m.initvar.state,
                  !.aux          = m.initvar.aux,
                  !.const        = m.initvar.const,
                  !.sparams      = m.initvar.sparams,
                  !.opt_state    = optimizer_init(m.initvar.params),
                  !.n_batch      = gb.n_batches,
                  !.n_iter       = iterations(f.req, gb.n_batches),
                  !.pos          = 0]

NoUnit == [valid |-> FALSE,
           loss |-> [p |-> NoSignal, z |-> NoSignal, deps |-> {}],
           params |-> NoVars.params, module_state |-> V0.af_state]

NoCall == [params |-> NoVars.params, state |-> V0.af_state, aux |-> V0.aux,
           const |-> V0.const, input |-> NoSignal]

NoTest == [called |-> FALSE, none |-> FALSE, given |-> NoVars.params,
           call |-> NoCall, returned |-> V0.af_state]

(***************************************************************************)
(* test.                                                                   *)
(***************************************************************************)
test_ignores_default(m, params, none, ds) ==
    LET state   == m.initvar.state
        aux     == dict_replace(m.initvar.aux, [truth |-> Signal(0, ds.xlen)])
        const   == m.initvar.const
        sparams == m.initvar.sparams
        r       == module_apply([params |-> dict_merge(params, sparams),
                                 aux |-> aux, const |-> const, state |-> state],
                                Signal(0, ds.ylen), "test")
    IN  [z |-> r.z, call |-> r.call, returned |-> r.state]

test(m, params, none, ds) ==
    LET state   == m.initvar.state
        aux     == dict_replace(m.initvar.aux, [truth |-> Signal(0, ds.xlen)])
        const   == m.initvar.const
        sparams == m.initvar.sparams
        p       == IF none THEN m.initvar.params ELSE params
        r       == module_apply([params |-> dict_merge(p, sparams), aux |-> aux,
                                 const |-> const, state |-> state],
                                Signal(0, ds.ylen), "test")
    IN  [z |-> r.z, call |-> r.call, returned |-> r.state]

(***************************************************************************)
(* The state machine.                                                      *)
(***************************************************************************)
NoConf == [dtaps |-> 0, ntaps |-> 0, rtaps |-> 0, mode |-> "none",
           sparams_flatkeys |-> {}]

NoWnd == [pc |-> "none", L |-> 0, B |-> 0, O |-> 0, n_batches |-> 0,
          batch_gen |-> << >>, pos |-> 0]

NoMimo == [mode |-> "none", mimo_train |-> "none", step |-> 0, blocks |-> 0,
           probed |-> FALSE, at |-> 0, train |-> FALSE]

InitRest ==
    /\ conf = NoConf
    /\ phase = "new"
    /\ err = "none"
    /\ built = {}
    /\ model = NoModel
    /\ tr = NoFrame
    /\ run = 0
    /\ jit_cache = {}
    /\ n_updates = 0
    /\ n_emitted = 0
    /\ emitted = NoUnit
    /\ fwd = <<NoCall, NoCall, NoCall>>
    /\ traced = FALSE
    /\ run_start = << >>
    /\ test_log = NoTest
    /\ wnd = NoWnd
    /\ mimo = NoMimo

DataSets(maxL) == {[ylen |-> L * sps, xlen |-> L] : L \in 0..maxL}

\* one train generator per Model, wide ranges of inputs
Init ==
    /\ data \in DataSets(MaxL)
    /\ lim = [runs |-> 1, B |-> MaxB, O |-> MaxO, iter |-> MaxIter,
              draws |-> NDraws]
    /\ InitRest

\* several train generators over one Model
InitRuns ==
    /\ data \in DataSets(RunsMaxL)
    /\ lim = [runs |-> MaxRuns, B |-> RunsMaxB, O |-> 0, iter |-> 1, draws |-> 1]
    /\ InitRest

\* model_init(data, base_conf, sparams_flatkeys)
ModelInit ==
    /\ phase = "new"
    /\ \E dtaps \in Taps, ntaps \in Taps, rtaps \in Taps, mode \in Modes,
          sk \in SUBSET Keys, ol \in 0..lim.O :
          LET r == model_init(dtaps, ntaps, rtaps, mode, sk, ol)
          IN  /\ conf' = [dtaps |-> dtaps, ntaps |-> ntaps, rtaps |-> rtaps,
                          mode |-> mode, sparams_flatkeys |-> sk]
              /\ err' = r.err
              /\ built' = r.stages
              /\ model' = r.model
              /\ phase' = IF r.err = "none" THEN "made" ELSE "failed"
    /\ UNCHANGED <<data, tr, run, jit_cache, n_updates, n_emitted, emitted, fwd,
                   traced, run_start, test_log, lim, wnd, mimo>>

\* train(model, data, batch_size, n_iter): creates the generator
TrainCall ==
    /\ phase = "made"
    /\ tr.pc \in {"none", "done"}
    /\ run < lim.runs
    /\ \E batch_size \in 1..lim.B, n_iter \in {NoneIter} \cup 0..lim.iter :
          tr' = [NoFrame EXCEPT !.pc = "created", !.batch_size = batch_size,
                                !.req = n_iter]
    /\ run' = run + 1
    /\ n_updates' = 0
    /\ n_emitted' = 0
    /\ emitted' = NoUnit
    /\ fwd' = <<NoCall, NoCall, NoCall>>
    /\ traced' = FALSE
    /\ test_log' = NoTest
    /\ UNCHANGED <<data, conf, phase, err, built, model, jit_cache, run_start,
                   lim, wnd, mimo>>

\* next() on the generator: runs train up to its next yield or to its end
TrainNext ==
    /\ tr.pc \in {"created", "suspended"}
    /\ LET f   == IF tr.pc = "created" THEN prologue(tr, model, data) ELSE tr
           gen == get_train_batch(data, f.batch_size, model.overlaps).batch_gen
           i   == f.pos
       IN  /\ run_start' = IF tr.pc = "created"
                           THEN Append(run_start,
                                       [params |-> f.params,
                                        module_state |-> f.module_state,
                                        opt_state |-> f.opt_state])
                           ELSE run_start
           /\ IF i >= Len(gen)
              THEN \* batch_gen is exhausted: the loop ends
                   /\ tr' = [f EXCEPT !.pc = "done"]
                   /\ UNCHANGED <<model, jit_cache, n_updates, n_emitted,
                                  emitted, fwd, traced>>
              ELSE IF loop_break(i, f.n_iter)
              THEN /\ tr' = [f EXCEPT !.pc = "done", !.pos = i + 1]
                   /\ UNCHANGED <<model, jit_cache, n_updates, n_emitted,
                                  emitted, fwd, traced>>
              ELSE \E drawn \in Draws(lim.draws) \X Draws(lim.draws), g \in GradSet :
                   LET y    == gen[i + 1][1]
                       x    == gen[i + 1][2]
                       aux  == dict_replace(f.aux, [truth |-> x])
                       \* the jit wrapper runs update_step's Python only for
                       \* argument shapes it has not traced yet
                       hit  == \E e \in jit_cache : e.key = y.len
                       rnd  == IF hit
                               THEN (CHOOSE e \in jit_cache : e.key = y.len).rnd
                               ELSE drawn
                       r    == update_step(f.opt_state, f.params, f.module_state,
                                           y, x, aux, f.const, f.sparams, rnd, g)
                   IN  /\ jit_cache' = IF hit THEN jit_cache
                                       ELSE jit_cache \cup
                                            {[key |-> y.len, rnd |-> drawn]}
                       /\ traced' = ~hit
                       /\ model' = IF i = 0
                                   THEN [model EXCEPT !.initvar.aux =
                                            arg_after_dict_replace(
                                                model.initvar.aux, [truth |-> x])]
                                   ELSE model
                       /\ tr' = [f EXCEPT !.pc = "suspended",
                                          !.aux = aux,
                                          !.opt_state = r.new_opt_state,
                                          !.module_state = r.new_module_state,
                                          !.params = r.new_params,
                                          !.pos = i + 1]
                       /\ fwd' = r.calls
                       /\ n_updates' = n_updates + 1
                       /\ emitted' = [valid |-> TRUE, loss |-> r.loss,
                                      params |-> r.new_params,
                                      module_state |-> r.new_module_state]
                       /\ n_emitted' = n_emitted + 1
    /\ UNCHANGED <<data, conf, phase, err, built, run, test_log, lim, wnd, mimo>>

\* test(model, params, data)
Test ==
    /\ phase = "made"
    /\ tr.pc \in {"none", "done"}
    /\ \E none \in BOOLEAN :
          /\ none \/ emitted.valid
          /\ LET r == test(model, emitted.params, none, data)
             IN  test_log' = [called |-> TRUE, none |-> none,
                              given |-> emitted.params, call |-> r.call,
                              returned |-> r.returned]
    /\ model' = [model EXCEPT !.initvar.aux =
                    arg_after_dict_replace(model.initvar.aux,
                                           [truth |-> Signal(0, data.xlen)])]
    /\ UNCHANGED <<data, conf, phase, err, built, tr, run, jit_cache, n_updates,
                   n_emitted, emitted, fwd, traced, run_start, lim, wnd, mimo>>

(***************************************************************************)
(* Batch windowing on its own: get_train_batch and the consumption of the  *)
(* lazy sequence it returns.                                               *)
(***************************************************************************)
InitBatch ==
    /\ data \in DataSets(0)
    /\ lim = [runs |-> 0, B |-> WMaxB, O |-> WMaxO, iter |-> 0, draws |-> 0]
    /\ InitRest

Rest == <<conf, phase, err, built, model, tr, run, jit_cache, n_updates,
          n_emitted, emitted, fwd, traced, run_start, test_log, lim>>

\* get_train_batch(ds, batchsize, overlaps) on a data set of L symbols
WindowCall ==
    /\ wnd.pc = "none"
    /\ \E L \in 0..WMaxL, B \in 1..lim.B, O \in 0..lim.O :
          LET ds == [ylen |-> L * sps, xlen |-> L]
              gb == get_train_batch(ds, B, O)
          IN  /\ data' = ds
              /\ wnd' = [pc |-> "open", L |-> L, B |-> B, O |-> O,
                         n_batches |-> gb.n_batches, batch_gen |-> gb.batch_gen,
                         pos |-> 0]
    /\ UNCHANGED <<Rest, mimo>>

\* next() on the sequence of batches
WindowNext ==
    /\ wnd.pc = "open"
    /\ wnd' = IF wnd.pos < Len(wnd.batch_gen)
              THEN [wnd EXCEPT !.pos = wnd.pos + 1]
              ELSE [wnd EXCEPT !.pc = "exhausted"]
    /\ UNCHANGED <<data, Rest, mimo>>

NextBatch == WindowCall \/ WindowNext

SpecBatch == InitBatch /\ [][NextBatch]_vars

(***************************************************************************)
(* The train flag of the adaptive equalizer (layer.MIMOAF, MIMOFOEAf):     *)
(* cxopt.piecewise_constant(boundaries, values) is the schedule            *)
(* i |-> values[number of boundaries that i exceeds].                      *)
(***************************************************************************)
piecewise_constant(boundaries, values, i) ==
    values[Cardinality({b \in boundaries : i > b}) + 1]

\* the value of mimo_train at step i of the equalizer's symbol counter
mimo_train_at(mimo_train, i) ==
    IF mimo_train = "True" THEN TRUE
    ELSE piecewise_constant({Boundary}, <<TRUE, FALSE>>, i)

BlockLens == {1, Boundary \div 2 - 1, Boundary \div 2}

InitMimo ==
    /\ data \in DataSets(0)
    /\ lim = [runs |-> 0, B |-> 0, O |-> 0, iter |-> 0, draws |-> 0]
    /\ InitRest

\* make_base_module(mode=...) for the modes it accepts
MimoMake ==
    /\ mimo.mode = "none"
    /\ \E mode \in Modes, taps \in Taps :
          LET mk == make_base_module(taps, taps, taps, mode)
          IN  /\ mk.err = "none"
              /\ mimo' = [NoMimo EXCEPT !.mode = mode,
                                        !.mimo_train = mk.module.mimo_train]
    /\ UNCHANGED <<data, Rest, wnd>>

\* the equalizer processes a block of n symbols; the flag is observed at the
\* first or the last symbol of the block
MimoBlock ==
    /\ mimo.mode # "none"
    /\ mimo.blocks < MaxBlocks
    /\ \E n \in BlockLens : \E at \in {mimo.step, mimo.step + n - 1} :
          mimo' = [mimo EXCEPT !.step = mimo.step + n,
                               !.blocks = mimo.blocks + 1,
                               !.probed = TRUE,
                               !.at = at,
                               !.train = mimo_train_at(mimo.mimo_train, at)]
    /\ UNCHANGED <<data, Rest, wnd>>

NextMimo == MimoMake \/ MimoBlock

SpecMimo == InitMimo /\ [][NextMimo]_vars

Next == ModelInit \/ TrainCall \/ TrainNext \/ Test

Spec == Init /\ [][Next]_vars

SpecRuns == InitRuns /\ [][Next]_vars

(***************************************************************************)
(* Properties.                                                             *)
(***************************************************************************)
\* the batches the generator of the current train call can draw
Batches == get_train_batch(data, tr.batch_size, model.overlaps).batch_gen

\* the state a logged module.apply call returned
Returned(c) ==
    module_apply([params |-> c.params, aux |-> c.aux, const |-> c.const,
                  state |-> c.state], c.input, "original").state

C1_State ==
    tr.pc = "suspended" =>
        /\ fwd[2].state = fwd[1].state
        /\ fwd[3].state = fwd[1].state
        /\ fwd[1].input = Batches[tr.pos][1]
        /\ tr.module_state = Returned(fwd[1])
        /\ emitted.module_state = Returned(fwd[1])

C1_Step ==
    (tr.pc \in {"created", "suspended"} /\ tr'.pc = "suspended") =>
        fwd'[1].state = IF tr.pc = "created" THEN model.initvar.state
                        ELSE tr.module_state

\* C1: in every train iteration the three forward passes receive the same
\* module state, which is the state the previous iteration carried over (the
\* Model's initial state in the first iteration); the state carried on and
\* emitted is the one returned by the forward of the original y, never one
\* returned by a forward of an augmented view.
C1_StateThreading == []C1_State /\ [][C1_Step]_vars

\* C1 witness: a second iteration has run with both views augmented, so the
\* three forwards returned three different states.
C1_Witness ==
    /\ tr.pc = "suspended"
    /\ n_emitted >= 2
    /\ fwd[2].input # fwd[1].input
    /\ fwd[3].input # fwd[1].input
    /\ Returned(fwd[2]) # Returned(fwd[1])

StaticKeys == conf.sparams_flatkeys

\* C2: after any number of iterations the parameters marked static keep
\* their initial values, in the static subset and in the merged parameters
\* every forward receives; the trainable and the static subset stay disjoint
\* and together hold every key.
C2_StaticFrozen ==
    phase = "made" =>
        /\ DOMAIN model.initvar.sparams = StaticKeys
        /\ DOMAIN model.initvar.params = Keys \ StaticKeys
        /\ tr.pc \in {"suspended", "done"} =>
              /\ DOMAIN tr.sparams = StaticKeys
              /\ DOMAIN tr.params = Keys \ StaticKeys
              /\ \A k \in StaticKeys : tr.sparams[k] = V0.params[k]
        /\ emitted.valid =>
              /\ DOMAIN emitted.params = Keys \ StaticKeys
              /\ \A j \in 1..3 :
                    /\ DOMAIN fwd[j].params = Keys
                    /\ \A k \in StaticKeys : fwd[j].params[k] = V0.params[k]

\* C2 witness: two iterations over a Model with a static and a trainable
\* key, the trainable one having moved.
C2_Witness ==
    /\ n_emitted >= 2
    /\ StaticKeys # {} /\ StaticKeys # Keys
    /\ \E k \in DOMAIN tr.params : tr.params[k] # V0.params[k]

\* C3: the loss is differentiated through the first augmented view only: the
\* second view enters it gradient-detached.
C3_StopGradient ==
    emitted.valid => "view2" \notin emitted.loss.deps

Requested ==
    IF tr.req = NoneIter THEN Len(Batches) ELSE Min(tr.req, Len(Batches))

\* C4: a fully consumed train generator has emitted min(requested
\* iterations, available batches) units (all available batches when no count
\* is requested); it never emits more, each unit follows one optimizer
\* update, and the optimizer state has counted as many updates as units.
C4_UnitsEmitted ==
    tr.pc \in {"created", "suspended", "done"} =>
        /\ n_emitted <= Requested
        /\ n_updates = n_emitted
        /\ tr.pc # "created" => tr.opt_state.count = n_emitted
        /\ tr.pc = "done" => n_emitted = Requested
        /\ tr.pc = "suspended" => tr.pos = n_emitted

\* C4 witness: a generator that ended by reaching the requested count with
\* batches left.
C4_Witness ==
    /\ tr.pc = "done"
    /\ tr.req > 0
    /\ tr.req < Len(Batches)
    /\ n_emitted = tr.req

\* the samples of a window
Samples(w) == w.start .. (w.start + w.len - 1)

\* C5: for L >= B+O get_train_batch yields floor((L-O)/B) batches; batch k
\* (from 0) starts at k*B*sps in y and k*B in x, with lengths (B+O)*sps and
\* B+O, and consecutive windows share O symbols.
C5_Windows ==
    (wnd.pc # "none" /\ wnd.L >= wnd.B + wnd.O) =>
        /\ wnd.n_batches = (wnd.L - wnd.O) \div wnd.B
        /\ Len(wnd.batch_gen) = wnd.n_batches
        /\ \A k \in 1..Len(wnd.batch_gen) :
              /\ wnd.batch_gen[k][1].start = (k - 1) * wnd.B * sps
              /\ wnd.batch_gen[k][1].len = (wnd.B + wnd.O) * sps
              /\ wnd.batch_gen[k][2].start = (k - 1) * wnd.B
              /\ wnd.batch_gen[k][2].len = wnd.B + wnd.O
        /\ \A k \in 1..(Len(wnd.batch_gen) - 1) :
              /\ Cardinality(Samples(wnd.batch_gen[k][2]) \cap
                             Samples(wnd.batch_gen[k + 1][2])) = wnd.O
              /\ Cardinality(Samples(wnd.batch_gen[k][1]) \cap
                             Samples(wnd.batch_gen[k + 1][1])) = wnd.O * sps

\* C5 witness: a signal cut into at least two windows with a positive
\* overlap, read to its end.
C5_Witness ==
    /\ wnd.pc = "exhausted"
    /\ wnd.O > 0
    /\ Len(wnd.batch_gen) >= 2

\* C6: when the signal is shorter than one window (L < O+B) no batch is
\* produced, and train ends with no unit emitted and no optimizer update,
\* whatever iteration count was requested.
C6_ShortSignal ==
    (tr.pc \in {"created", "suspended", "done"}
        /\ data.xlen < model.overlaps + tr.batch_size) =>
        /\ Len(Batches) = 0
        /\ tr.pc \in {"created", "done"}
        /\ n_emitted = 0
        /\ n_updates = 0
        /\ ~emitted.valid

\* C6 witness: train over a signal of at least B but fewer than B+O symbols
\* has ended, no count having been requested.
C6_Witness ==
    /\ tr.pc = "done"
    /\ tr.req = NoneIter
    /\ data.xlen >= tr.batch_size
    /\ data.xlen < model.overlaps + tr.batch_size

ConfInvalid ==
    \/ conf.mode \notin {"train", "test"}
    \/ conf.dtaps % 2 = 0
    \/ conf.ntaps % 2 = 0
    \/ conf.rtaps % 2 = 0

\* C7: model_init given a mode other than 'train' and 'test' or an even tap
\* count raises, having built no layer stack, no variable snapshot and no
\* Model; no generator, optimizer state or batch ever exists for it.
C7_EagerReject ==
    (phase # "new" /\ ConfInvalid) =>
        /\ phase = "failed"
        /\ err \in {"AssertionError", "ValueError"}
        /\ built = {}
        /\ model = NoModel
        /\ tr = NoFrame
        /\ run = 0
        /\ run_start = << >>
        /\ n_updates = 0
        /\ ~test_log.called

\* C7 witness: model_init was given mode 'eval' with odd taps and raised.
C7_Witness ==
    /\ phase = "failed"
    /\ conf.mode = "eval"
    /\ conf.dtaps % 2 = 1 /\ conf.ntaps % 2 = 1 /\ conf.rtaps % 2 = 1
    /\ err = "ValueError"

\* C8: with mode 'test' the adaptive update is active at every step below
\* 200000 and frozen at step 200000 and every later step; with mode 'train'
\* it is active at every step.
C8_StepFunction ==
    mimo.probed =>
        /\ mimo.mode = "test" => (mimo.train <=> mimo.at < Boundary)
        /\ mimo.mode = "train" => mimo.train

Created ==
    model_init(conf.dtaps, conf.ntaps, conf.rtaps, conf.mode,
               conf.sparams_flatkeys, model.overlaps).model

\* C9: the Model keeps the value it was created with through train
\* iterations and test calls; test forwards the whole signal once from the
\* Model's initial module state, with the Model's trainable parameters when
\* none are given, and every training run starts from the Model's params
\* and module state and a fresh optimizer state.
C9_ModelReadOnly ==
    phase = "made" =>
        /\ model = Created
        /\ test_log.called =>
              /\ test_log.call.state = Created.initvar.state
              /\ test_log.call.input = Signal(0, data.ylen)
              /\ test_log.call.aux.truth = Signal(0, data.xlen)
              /\ test_log.call.params =
                    dict_merge(IF test_log.none THEN Created.initvar.params
                               ELSE test_log.given,
                               Created.initvar.sparams)
        /\ \A r \in 1..Len(run_start) :
              run_start[r] = [params |-> Created.initvar.params,
                              module_state |-> Created.initvar.state,
                              opt_state |->
                                  optimizer_init(Created.initvar.params)]

\* C9 witness: a second training run has emitted a unit and test was then
\* called with the trained parameters.
C9_Witness ==
    /\ Len(run_start) = 2
    /\ n_emitted >= 1
    /\ test_log.called
    /\ ~test_log.none
    /\ \E k \in DOMAIN test_log.given : test_log.given[k] # V0.params[k]

\* C10: every training iteration draws its augmentation decisions afresh:
\* each call of the update step runs the random draws of loss_fn.
C10_FreshDraws ==
    emitted.valid => traced

====
